---------------------------- MODULE Spec2Model ----------------------------
(***************************************************************************)
(* Model of the Bedrock agent chat front-end: the BedrockAgent client of   *)
(* src/utils/bedrock.py (construction, session id, invoke_agent and its    *)
(* event classifier) and the parts of run_app in src/chatbot.py that call  *)
(* it (Initialize Agent, Clear Chat, a submitted prompt).                  *)
(*                                                                         *)
(* Python values are tagged tuples: <<"str", s>>, <<"int", n>>,            *)
(* <<"bytes", seq of 0..255>>, <<"datetime", <<y, mo, d, h, mi, s>>>>,     *)
(* <<"list", seq>> and <<"dict", seq of <<key, value>>>> (insertion        *)
(* order kept, as in Python).  A decoded chunk (a Python str) is the       *)
(* sequence of its code points; every other text is a TLA+ string, with a  *)
(* non-ASCII character of the source written as its \uXXXX escape.         *)
(***************************************************************************)
EXTENDS Integers, Sequences, FiniteSets, TLC

Last(s) == s[Len(s)]

(***************************************************************************)
(* Bounds of the model.                                                    *)
(***************************************************************************)
\* Events the remote stream may deliver, over all invocations of a run.
MaxEvents == 3
\* Entries of the chat history.
MaxChat == 3
\* Session ids uuid1 may hand out in a run.
MaxUuids == 3

(***************************************************************************)
(* Python values.                                                          *)
(***************************************************************************)
PyStr(s) == <<"str", s>>
PyInt(n) == <<"int", n>>
PyBytes(b) == <<"bytes", b>>
PyDatetime(y, mo, d, h, mi, s) == <<"datetime", <<y, mo, d, h, mi, s>>>>
PyList(items) == <<"list", items>>
PyDict(items) == <<"dict", items>>

\* `k in d` for a dict d.
HasKey(d, k) == \E i \in 1..Len(d[2]) : d[2][i][1] = k

\* d[k] for a dict d that has the key k.
Get(d, k) == d[2][CHOOSE i \in 1..Len(d[2]) : d[2][i][1] = k][2]

(***************************************************************************)
(* Exceptions: the class name and str(e).                                  *)
(***************************************************************************)
Exc(type, msg) == [type |-> type, code |-> "", msg |-> msg]
NoExc == Exc("none", "")

\* str(KeyError(k)) is repr(k).
KeyError(k) == Exc("KeyError", "'" \o k \o "'")

(***************************************************************************)
(* bytes.decode("utf8"), strict.  The result is [ok, text] with text the   *)
(* code points decoded, or [ok = FALSE, start, end, reason] as in          *)
(* UnicodeDecodeError.                                                     *)
(***************************************************************************)
IsCont(b) == b >= 128 /\ b <= 191

\* Number of bytes of the character a lead byte starts, 0 for no lead byte.
Utf8Width(b0) ==
    IF b0 < 128 THEN 1
    ELSE IF b0 >= 194 /\ b0 <= 223 THEN 2
    ELSE IF b0 >= 224 /\ b0 <= 239 THEN 3
    ELSE IF b0 >= 240 /\ b0 <= 244 THEN 4
    ELSE 0

\* The second byte of a character, which also excludes overlong forms,
\* surrogates and code points above U+10FFFF.
SecondOk(b0, b1) ==
    IF b0 = 224 THEN b1 >= 160 /\ b1 <= 191
    ELSE IF b0 = 237 THEN b1 >= 128 /\ b1 <= 159
    ELSE IF b0 = 240 THEN b1 >= 144 /\ b1 <= 191
    ELSE IF b0 = 244 THEN b1 >= 128 /\ b1 <= 143
    ELSE IsCont(b1)

DecodeError(start, end, reason) ==
    [ok |-> FALSE, text |-> <<>>, start |-> start, end |-> end, reason |-> reason]

RECURSIVE Utf8DecodeFrom(_, _, _)
Utf8DecodeFrom(b, i, acc) ==
    IF i > Len(b) THEN [ok |-> TRUE, text |-> acc, start |-> 0, end |-> 0, reason |-> ""]
    ELSE LET b0 == b[i]
             w == Utf8Width(b0)
             left == Len(b) - i + 1
         IN  IF w = 0 THEN DecodeError(i - 1, i, "invalid start byte")
             ELSE IF w = 1 THEN Utf8DecodeFrom(b, i + 1, Append(acc, b0))
             ELSE IF left < 2 THEN DecodeError(i - 1, Len(b), "unexpected end of data")
             ELSE IF ~SecondOk(b0, b[i + 1])
                  THEN DecodeError(i - 1, i, "invalid continuation byte")
             ELSE IF w = 2
                  THEN Utf8DecodeFrom(b, i + 2,
                           Append(acc, (b0 % 32) * 64 + (b[i + 1] % 64)))
             ELSE IF left < 3 THEN DecodeError(i - 1, Len(b), "unexpected end of data")
             ELSE IF ~IsCont(b[i + 2])
                  THEN DecodeError(i - 1, i + 1, "invalid continuation byte")
             ELSE IF w = 3
                  THEN Utf8DecodeFrom(b, i + 3,
                           Append(acc, (b0 % 16) * 4096 + (b[i + 1] % 64) * 64
                                       + (b[i + 2] % 64)))
             ELSE IF left < 4 THEN DecodeError(i - 1, Len(b), "unexpected end of data")
             ELSE IF ~IsCont(b[i + 3])
                  THEN DecodeError(i - 1, i + 2, "invalid continuation byte")
             ELSE Utf8DecodeFrom(b, i + 4,
                      Append(acc, (b0 % 8) * 262144 + (b[i + 1] % 64) * 4096
                                  + (b[i + 2] % 64) * 64 + (b[i + 3] % 64)))

Utf8Decode(b) == Utf8DecodeFrom(b, 1, <<>>)

HexDigit(n) ==
    <<"0", "1", "2", "3", "4", "5", "6", "7", "8", "9", "a", "b", "c", "d", "e", "f">>[n + 1]

\* str(UnicodeDecodeError) of a failed decode of b.
UnicodeDecodeError(b, r) ==
    Exc("UnicodeDecodeError",
        IF r.end = r.start + 1
        THEN "'utf-8' codec can't decode byte 0x" \o HexDigit(b[r.start + 1] \div 16)
             \o HexDigit(b[r.start + 1] % 16) \o " in position " \o ToString(r.start)
             \o ": " \o r.reason
        ELSE "'utf-8' codec can't decode bytes in position " \o ToString(r.start)
             \o "-" \o ToString(r.end - 1) \o ": " \o r.reason)

(***************************************************************************)
(* _serialize_trace_data and json.dumps(obj, indent=2).                    *)
(***************************************************************************)
Pad2(n) == IF n < 10 THEN "0" \o ToString(n) ELSE ToString(n)

Pad4(n) ==
    IF n < 10 THEN "000" \o ToString(n)
    ELSE IF n < 100 THEN "00" \o ToString(n)
    ELSE IF n < 1000 THEN "0" \o ToString(n)
    ELSE ToString(n)

\* datetime.isoformat() of a naive datetime with no microseconds.
IsoFormat(t) ==
    Pad4(t[1]) \o "-" \o Pad2(t[2]) \o "-" \o Pad2(t[3]) \o "T"
    \o Pad2(t[4]) \o ":" \o Pad2(t[5]) \o ":" \o Pad2(t[6])

RECURSIVE SerializeTraceData(_)
SerializeTraceData(obj) ==
    IF obj[1] = "datetime" THEN PyStr(IsoFormat(obj[2]))
    ELSE IF obj[1] = "dict"
         THEN PyDict([i \in 1..Len(obj[2]) |->
                        <<obj[2][i][1], SerializeTraceData(obj[2][i][2])>>])
    ELSE IF obj[1] = "list"
         THEN PyList([i \in 1..Len(obj[2]) |-> SerializeTraceData(obj[2][i])])
    ELSE obj

RECURSIVE Spaces(_)
Spaces(n) == IF n = 0 THEN "" ELSE " " \o Spaces(n - 1)

\* The JSON string literal of s, for s of letters, digits, spaces and
\* punctuation that JSON leaves unescaped (all the strings of the model).
JsonString(s) == "\"" \o s \o "\""

RECURSIVE JsonDumpsAt(_, _)
RECURSIVE JsonItems(_, _, _, _)
\* Items i.. of a dict or list, each on its own line at the given depth.
JsonItems(obj, i, depth, isDict) ==
    IF i > Len(obj[2]) THEN ""
    ELSE (IF i > 1 THEN "," ELSE "") \o "\n" \o Spaces(2 * depth)
         \o (IF isDict
             THEN JsonString(obj[2][i][1]) \o ": " \o JsonDumpsAt(obj[2][i][2], depth)
             ELSE JsonDumpsAt(obj[2][i], depth))
         \o JsonItems(obj, i + 1, depth, isDict)

JsonDumpsAt(obj, depth) ==
    IF obj[1] = "str" THEN JsonString(obj[2])
    ELSE IF obj[1] = "int" THEN ToString(obj[2])
    ELSE IF obj[1] = "dict"
         THEN IF Len(obj[2]) = 0 THEN "{}"
              ELSE "{" \o JsonItems(obj, 1, depth + 1, TRUE)
                   \o "\n" \o Spaces(2 * depth) \o "}"
    ELSE IF Len(obj[2]) = 0 THEN "[]"
         ELSE "[" \o JsonItems(obj, 1, depth + 1, FALSE)
              \o "\n" \o Spaces(2 * depth) \o "]"

\* json.dumps(obj, indent=2)
JsonDumps(obj) == JsonDumpsAt(obj, 0)

(***************************************************************************)
(* The events the remote stream may deliver (response["completion"]).      *)
(***************************************************************************)
ChunkEvent(b) == PyDict(<< <<"chunk", PyDict(<< <<"bytes", PyBytes(b)>> >>)>> >>)

\* {"trace": {"trace": {kind: body}}}
TraceEvent(kind, body) ==
    PyDict(<< <<"trace", PyDict(<< <<"trace", PyDict(<< <<kind, body>> >>)>> >>)>> >>)

EvChunkA == ChunkEvent(<<65>>)
\* b"\xc3\xa9", the two-byte encoding of U+00E9
EvChunkUtf8 == ChunkEvent(<<195, 169>>)
\* b"\xff", not UTF-8
EvChunkBad == ChunkEvent(<<255>>)
EvRationale1 ==
    TraceEvent("orchestrationTrace", PyDict(<< <<"rationale", PyDict(<< <<"text", PyStr("r1")>> >>)>> >>))
\* an orchestration event with neither rationale nor modelInvocationInput
EvObservation ==
    TraceEvent("orchestrationTrace",
        PyDict(<< <<"observation",
                    PyDict(<< <<"type", PyStr("FINISH")>>,
                              <<"at", PyDatetime(2024, 1, 2, 3, 4, 5)>> >>)>> >>))
\* a bare model-invocation-input orchestration event
EvModelInput ==
    TraceEvent("orchestrationTrace",
        PyDict(<< <<"modelInvocationInput", PyDict(<< <<"text", PyStr("prompt")>> >>)>> >>))
EvFailure ==
    TraceEvent("failureTrace", PyDict(<< <<"failureReason", PyStr("boom")>> >>))
EvPostProcessing ==
    TraceEvent("postProcessingTrace",
        PyDict(<< <<"modelInvocationOutput",
                    PyDict(<< <<"parsedResponse", PyDict(<< <<"text", PyStr("p1")>> >>)>> >>)>> >>))
\* a post-processing trace that carries the model input, not its output
EvPostInput ==
    TraceEvent("postProcessingTrace",
        PyDict(<< <<"modelInvocationInput", PyDict(<< <<"text", PyStr("prompt")>> >>)>> >>))
\* a trace event without the nested "trace" field
EvTraceBare == PyDict(<< <<"trace", PyDict(<< <<"agentId", PyStr("AG")>> >>)>> >>)
\* an event with neither "chunk" nor "trace"
EvReturnControl ==
    PyDict(<< <<"returnControl", PyDict(<< <<"invocationId", PyStr("i1")>> >>)>> >>)

StreamEvents ==
    << EvChunkA, EvChunkUtf8, EvChunkBad, EvRationale1, EvObservation, EvModelInput,
       EvFailure, EvPostProcessing, EvPostInput, EvTraceBare, EvReturnControl >>

(***************************************************************************)
(* Errors of the transport and of the remote service.  code is the error   *)
(* code that str(e) contains, which the substring tests of the exception   *)
(* handler look for.                                                       *)
(***************************************************************************)
ClientError(code, message) ==
    [type |-> "ClientError", code |-> code,
     msg |-> "An error occurred (" \o code \o ") when calling the InvokeAgent operation: "
             \o message]

ErrNotFound == ClientError("ResourceNotFoundException", "agent not found")
ErrAccessDenied == ClientError("AccessDeniedException", "not authorized")
ErrStream == ClientError("internalServerException", "stream failed")

\* what client.invoke_agent(...) may raise
RequestErrors == <<ErrNotFound, ErrAccessDenied>>
\* what iterating response["completion"] may raise
StreamErrors == <<ErrStream>>

\* `code in str(e)`
Mentions(e, code) == e.code = code

\* what a failing trace sink raises
SinkError == [type |-> "SinkError", code |-> "", msg |-> "sink failure"]

(***************************************************************************)
(* The trace sink: the pushes it has displayed.  A push either is          *)
(* displayed or raises.                                                    *)
(***************************************************************************)
Push(method, text) == [method |-> method, text |-> text]

(***************************************************************************)
(* invoke_agent: the body of the loop over the events.                     *)
(***************************************************************************)
\* The locals of invoke_agent, the sink, and the exception raised (NoExc
\* for none).
Res(rt, tt, st, sk, exc) ==
    [response_text |-> rt, trace_text |-> tt, step |-> st, sink |-> sk, exc |-> exc]

\* step = 0
InitialStep == 0

\* A counter that skips a number at each step.
NextStepSkips(step) == step + 2

\* step += 1
NextStep(step) == step + 1

\* An accumulation policy: each chunk is added to the text so far.
AssignResponseTextAccumulates(response_text, decoded) == response_text \o decoded

\* response_text = data.decode("utf8")
AssignResponseText(response_text, decoded) == decoded

StepHeader(step) == "\n\n\n---------- Step " \o ToString(step) \o " ----------\n\n\n"

\* trace_text += fragment; trace.markdown(fragment)
AppendAndPush(L, st, fragment, sinkOk) ==
    IF sinkOk
    THEN Res(L.response_text, L.trace_text \o fragment, st,
             Append(L.sink, Push("markdown", fragment)), NoExc)
    ELSE Res(L.response_text, L.trace_text \o fragment, st, L.sink, SinkError)

\* if "chunk" in event
ChunkBranch(L, event) ==
    LET chunk == Get(event, "chunk") IN
    IF ~HasKey(chunk, "bytes")
    THEN Res(L.response_text, L.trace_text, L.step, L.sink, KeyError("bytes"))
    ELSE LET data == Get(chunk, "bytes")[2]
             r == Utf8Decode(data)
         IN  IF r.ok
             THEN Res(AssignResponseText(L.response_text, r.text), L.trace_text,
                      L.step, L.sink, NoExc)
             ELSE Res(L.response_text, L.trace_text, L.step, L.sink,
                      UnicodeDecodeError(data, r))

\* An orchestration branch without the modelInvocationInput test: every
\* orchestration event without a rationale is dumped into the trace.
OrchestrationBranchEchoesInput(L, ot, sinkOk) ==
    IF HasKey(ot, "rationale")
    THEN AppendAndPush(L, NextStep(L.step),
             StepHeader(NextStep(L.step)) \o Get(Get(ot, "rationale"), "text")[2]
             \o "\n\n\n", sinkOk)
    ELSE AppendAndPush(L, L.step,
             "\n\n\n" \o JsonDumps(SerializeTraceData(ot)) \o "\n\n\n", sinkOk)

\* if "orchestrationTrace" in trace_obj
OrchestrationBranch(L, ot, sinkOk) ==
    LET trace_dump == JsonDumps(SerializeTraceData(ot)) IN
    IF HasKey(ot, "rationale")
    THEN IF ~HasKey(Get(ot, "rationale"), "text")
         THEN Res(L.response_text, L.trace_text, NextStep(L.step), L.sink, KeyError("text"))
         ELSE AppendAndPush(L, NextStep(L.step),
                  StepHeader(NextStep(L.step)) \o Get(Get(ot, "rationale"), "text")[2]
                  \o "\n\n\n", sinkOk)
    ELSE IF ~HasKey(ot, "modelInvocationInput")
         THEN AppendAndPush(L, L.step, "\n\n\n" \o trace_dump \o "\n\n\n", sinkOk)
         ELSE Res(L.response_text, L.trace_text, L.step, L.sink, NoExc)

\* A failure branch that treats the failure event as fatal.
FailureBranchRaises(L, ft, sinkOk) ==
    Res(L.response_text, L.trace_text, L.step, L.sink,
        Exc("Exception", JsonDumps(SerializeTraceData(ft))))

\* elif "failureTrace" in trace_obj
FailureBranch(L, ft, sinkOk) ==
    AppendAndPush(L, L.step, "\n\n\n" \o JsonDumps(SerializeTraceData(ft)) \o "\n\n\n",
                  sinkOk)

\* elif "postProcessingTrace" in trace_obj
PostProcessingBranch(L, pt, sinkOk) ==
    IF ~HasKey(pt, "modelInvocationOutput")
    THEN Res(L.response_text, L.trace_text, NextStep(L.step), L.sink,
             KeyError("modelInvocationOutput"))
    ELSE IF ~HasKey(Get(pt, "modelInvocationOutput"), "parsedResponse")
    THEN Res(L.response_text, L.trace_text, NextStep(L.step), L.sink,
             KeyError("parsedResponse"))
    ELSE IF ~HasKey(Get(Get(pt, "modelInvocationOutput"), "parsedResponse"), "text")
    THEN Res(L.response_text, L.trace_text, NextStep(L.step), L.sink, KeyError("text"))
    ELSE LET clean_response ==
                 SerializeTraceData(
                     Get(Get(Get(pt, "modelInvocationOutput"), "parsedResponse"), "text"))
         IN  AppendAndPush(L, NextStep(L.step),
                 StepHeader(NextStep(L.step)) \o JsonDumps(clean_response) \o "\n\n\n",
                 sinkOk)

\* One iteration of `for event in response["completion"]`.
ProcessEvent(L, event, sinkOk) ==
    IF HasKey(event, "chunk") THEN ChunkBranch(L, event)
    ELSE IF HasKey(event, "trace")
    THEN IF ~HasKey(Get(event, "trace"), "trace")
         THEN Res(L.response_text, L.trace_text, L.step, L.sink, KeyError("trace"))
         ELSE LET trace_obj == Get(Get(event, "trace"), "trace") IN
              IF HasKey(trace_obj, "orchestrationTrace")
              THEN OrchestrationBranch(L, Get(trace_obj, "orchestrationTrace"), sinkOk)
              ELSE IF HasKey(trace_obj, "failureTrace")
              THEN FailureBranch(L, Get(trace_obj, "failureTrace"), sinkOk)
              ELSE IF HasKey(trace_obj, "postProcessingTrace")
              THEN PostProcessingBranch(L, Get(trace_obj, "postProcessingTrace"), sinkOk)
              ELSE Res(L.response_text, L.trace_text, L.step, L.sink, NoExc)
    ELSE Res(L.response_text, L.trace_text, L.step, L.sink, NoExc)

(***************************************************************************)
(* invoke_agent: the exception handler.                                    *)
(***************************************************************************)
\* The trace.error(...) calls of the handler, in order.
ErrorPushes(e) ==
    << Push("error", "\\u274c Error invoking agent: " \o e.msg) >>
    \o (IF Mentions(e, "ResourceNotFoundException")
        THEN << Push("error", "\\U0001f50d **Troubleshooting ResourceNotFoundException:**"),
                Push("error", "1. Verify Agent ID is correct"),
                Push("error", "2. Verify Agent Alias ID is correct"),
                Push("error", "3. Check if agent is in the correct AWS region"),
                Push("error", "4. Ensure agent status is PREPARED"),
                Push("error", "5. Check IAM permissions for bedrock:InvokeAgent") >>
        ELSE IF Mentions(e, "AccessDeniedException")
        THEN << Push("error", "\\U0001f510 **Access Denied:** Check IAM permissions") >>
        ELSE << >>)

\* How the sink may take the pushes of the handler: it raises at the first
\* push, at the second (when there is one), or at none.
SinkOutcomes(e) == {0, 1, Len(ErrorPushes(e))}

\* raise Exception(f"Agent invocation failed: {error_msg}")
InvocationError(e) ==
    [type |-> "Exception", code |-> e.code, msg |-> "Agent invocation failed: " \o e.msg]

\* A handler that raises without telling the sink.
HandleExceptionSilent(L, e, okPushes) ==
    Res(L.response_text, L.trace_text \o "\\u274c Error: " \o e.msg, L.step, L.sink,
        InvocationError(e))

\* except Exception as e: ..., where the sink displays the first okPushes
\* pushes of the handler and raises at the next one, if there is one.
HandleException(L, e, okPushes) ==
    LET pushes == ErrorPushes(e)
        n == IF okPushes < Len(pushes) THEN okPushes ELSE Len(pushes)
    IN  Res(L.response_text, L.trace_text \o "\\u274c Error: " \o e.msg, L.step,
            L.sink \o SubSeq(pushes, 1, n),
            IF n < Len(pushes) THEN SinkError ELSE InvocationError(e))

(***************************************************************************)
(* Session ids.  uuid.uuid1() is built from a 60-bit timestamp that the    *)
(* library keeps strictly increasing within the process; the clock         *)
(* sequence and the node are fixed and written as zeros.                   *)
(***************************************************************************)
RECURSIVE HexOf(_, _)
\* n in hexadecimal, in the given number of digits
HexOf(n, digits) ==
    IF digits = 0 THEN ""
    ELSE HexOf(n \div 16, digits - 1) \o HexDigit(n % 16)

\* str(uuid.uuid1()) for the timestamp ts
Uuid1Str(ts) == HexOf(ts, 8) \o "-0000-1000-8000-000000000000"

\* "SESSION_ID" not in st.session_state
NoSession == ""

\* the ids the sidebar offers: an empty field, or the default value
AgentIds == {"", "DUMNN7TOIO"}
AliasIds == {"", "FMYGYTOPN1"}
Prompts == {"DB down"}

NoAgent == [exists |-> FALSE, agent_id |-> "", agent_alias_id |-> "", region |-> ""]

\* a chat_history entry; trace is <<>> for an entry without the key
Chat(role, prompt, trace) == [role |-> role, prompt |-> prompt, trace |-> trace]
Greeting == Chat("assistant", <<"str", "Enterprise AI Assistant Ready">>, <<>>)

\* what the caller of invoke_agent receives
NoOutcome == [kind |-> "none", response_text |-> <<>>, trace |-> <<>>, exc |-> NoExc]
Returned(rt, tt) == [kind |-> "return", response_text |-> rt, trace |-> <<tt>>, exc |-> NoExc]
Raised(e) == [kind |-> "raise", response_text |-> <<>>, trace |-> <<>>, exc |-> e]

VARIABLES
    hasRuntimeClient, \* "BEDROCK_RUNTIME_CLIENT" in st.session_state
    SESSION_ID,       \* st.session_state["SESSION_ID"], NoSession when absent
    uuidClock,        \* the timestamp of the last uuid1()
    agent,            \* the object the constructor call of the last step returned
    bedrock,          \* st.session_state.bedrock, NoAgent when absent
    chat_history,     \* st.session_state["chat_history"]
    pc,               \* idle, or the position inside invoke_agent
    response_text,    \* the locals of invoke_agent
    trace_text,
    step,
    sink,             \* what the trace sink of this invocation has displayed
    consumed,         \* the events of this invocation taken from the stream
    requests,         \* the requests this invocation sent to the remote service
    outcome,          \* what invoke_agent handed to its caller
    nEvents           \* events delivered in this run

vars ==
    << hasRuntimeClient, SESSION_ID, uuidClock, agent, bedrock, chat_history, pc,
       response_text, trace_text, step, sink, consumed, requests, outcome,
       nEvents >>

sessionVars == << hasRuntimeClient, SESSION_ID, uuidClock, bedrock >>
invokeVars == << response_text, trace_text, step, sink, consumed, requests, outcome >>

Locals == Res(response_text, trace_text, step, sink, NoExc)

Init ==
    /\ hasRuntimeClient = FALSE
    /\ SESSION_ID = NoSession
    /\ uuidClock = 0
    /\ agent = NoAgent
    /\ bedrock = NoAgent
    /\ chat_history = <<Greeting>>
    /\ pc = "idle"
    /\ response_text = <<>>
    /\ trace_text = ""
    /\ step = InitialStep
    /\ sink = <<>>
    /\ consumed = <<>>
    /\ requests = <<>>
    /\ outcome = NoOutcome
    /\ nEvents = 0

(***************************************************************************)
(* BedrockAgent.__init__ and new_session.                                  *)
(***************************************************************************)
\* The session id __init__ leaves: a new one only when there is none.
InitSessionId(sid, ts) == IF sid = NoSession THEN Uuid1Str(ts) ELSE sid

\* __init__ raises: there is no runtime client yet and creating one fails.
ConstructRaises(clientOk) == ~hasRuntimeClient /\ ~clientOk

\* BedrockAgent(environmentName, agent_id, agent_alias_id): clientOk is
\* whether Session().client(...) succeeds, ts the clock uuid1 reads.  The
\* ids are stored as given; the object goes to the caller, nothing is
\* stored in st.session_state.bedrock.
Construct(agent_id, agent_alias_id, clientOk, ts) ==
    IF ConstructRaises(clientOk)
    THEN /\ UNCHANGED << hasRuntimeClient, SESSION_ID, uuidClock >>
         /\ agent' = NoAgent
    ELSE /\ hasRuntimeClient' = TRUE
         /\ SESSION_ID' = InitSessionId(SESSION_ID, ts)
         /\ uuidClock' = IF SESSION_ID = NoSession THEN ts ELSE uuidClock
         /\ agent' = [exists |-> TRUE, agent_id |-> agent_id,
                      agent_alias_id |-> agent_alias_id, region |-> "us-east-1"]

\* run_app, before the history is displayed: an empty or absent chat
\* history becomes the greeting.
Displayed(history) == IF history = << >> THEN << Greeting >> ELSE history

\* Whether Session().client(...) succeeds, where __init__ calls it.
ClientOutcomes == IF hasRuntimeClient THEN {TRUE} ELSE BOOLEAN

\* What the clock of uuid1 may read, where __init__ calls it.
ClockReadings == IF SESSION_ID = NoSession THEN (uuidClock + 1)..MaxUuids ELSE {uuidClock}

\* A caller of the class constructs a client with the ids it was given.
ConstructAgent ==
    /\ pc = "idle"
    /\ \E agent_id \in AgentIds, agent_alias_id \in AliasIds,
          clientOk \in ClientOutcomes, ts \in ClockReadings :
           Construct(agent_id, agent_alias_id, clientOk, ts)
    /\ UNCHANGED << bedrock, chat_history, pc, nEvents >>
    /\ UNCHANGED invokeVars

\* run_app, a pass with the "Initialize Agent" button clicked: with both
\* ids given the client is constructed and stored in the session state;
\* an exception of the constructor ends the pass, otherwise the pass goes
\* on to the chat interface.
InitializeAgent ==
    /\ pc = "idle"
    /\ \E agent_id \in AgentIds, agent_alias_id \in AliasIds,
          clientOk \in ClientOutcomes, ts \in ClockReadings :
           IF agent_id # "" /\ agent_alias_id # ""
           THEN /\ Construct(agent_id, agent_alias_id, clientOk, ts)
                /\ IF ConstructRaises(clientOk)
                   THEN UNCHANGED << bedrock, chat_history >>
                   ELSE /\ bedrock' = agent'
                        /\ chat_history' = Displayed(chat_history)
           ELSE /\ UNCHANGED sessionVars
                /\ agent' = NoAgent
                /\ chat_history' = Displayed(chat_history)
    /\ UNCHANGED << pc, nEvents >>
    /\ UNCHANGED invokeVars

\* A reset that keeps the session id it had.
NewSessionIdStale(sid, ts) == sid

\* new_session(): st.session_state["SESSION_ID"] = str(uuid.uuid1())
NewSessionId(sid, ts) == Uuid1Str(ts)

\* run_app, a pass with the "Clear Chat" button clicked: the history is
\* emptied, the session is reset when a client is stored, and st.rerun()
\* ends the pass.
ClearChat ==
    /\ pc = "idle"
    /\ chat_history' = << >>
    /\ IF bedrock.exists
       THEN \E ts \in (uuidClock + 1)..MaxUuids :
               /\ SESSION_ID' = NewSessionId(SESSION_ID, ts)
               /\ uuidClock' = ts
       ELSE UNCHANGED << SESSION_ID, uuidClock >>
    /\ agent' = NoAgent
    /\ UNCHANGED << hasRuntimeClient, bedrock, pc, nEvents >>
    /\ UNCHANGED invokeVars

\* run_app, a pass without a widget event (the one st.rerun() starts): the
\* greeting is put back into an empty history.
Rerun ==
    /\ pc = "idle"
    /\ chat_history = << >>
    /\ chat_history' = Displayed(chat_history)
    /\ UNCHANGED << pc, nEvents >>
    /\ UNCHANGED sessionVars
    /\ agent' = NoAgent
    /\ UNCHANGED invokeVars

(***************************************************************************)
(* run_app: a submitted prompt, and invoke_agent step by step.             *)
(***************************************************************************)
\* The prompt is recorded in the displayed history; with a client stored,
\* invoke_agent is entered.
SubmitPrompt ==
    /\ pc = "idle"
    /\ Len(Displayed(chat_history)) + 2 <= MaxChat
    /\ \E prompt \in Prompts :
          chat_history' = Append(Displayed(chat_history),
                                 Chat("human", <<"str", prompt>>, <<>>))
    /\ pc' = IF bedrock.exists THEN "request" ELSE "idle"
    /\ response_text' = <<>>
    /\ trace_text' = ""
    /\ step' = InitialStep
    /\ sink' = <<>>
    /\ consumed' = <<>>
    /\ requests' = <<>>
    /\ outcome' = NoOutcome
    /\ UNCHANGED sessionVars
    /\ agent' = NoAgent
    /\ UNCHANGED nEvents

\* The request of one call of client.invoke_agent.
Request(self, sid, input_text) ==
    [inputText |-> input_text, agentId |-> self.agent_id,
     agentAliasId |-> self.agent_alias_id, sessionId |-> sid, enableTrace |-> TRUE]

\* The handler runs, and invoke_agent raises.
Fail(e, okPushes) ==
    LET r == HandleException(Locals, e, okPushes) IN
    /\ trace_text' = r.trace_text
    /\ sink' = r.sink
    /\ outcome' = Raised(r.exc)
    /\ pc' = "raised"

\* client.invoke_agent(...) answers with a stream.
SendRequest ==
    /\ pc = "request"
    /\ requests' = Append(requests, Request(bedrock, SESSION_ID, Last(chat_history).prompt[2]))
    /\ pc' = "stream"
    /\ UNCHANGED << response_text, trace_text, step, sink, consumed, outcome >>
    /\ UNCHANGED << chat_history, nEvents >>
    /\ UNCHANGED sessionVars
    /\ agent' = NoAgent

\* client.invoke_agent(...) raises.
RequestRaises ==
    /\ pc = "request"
    /\ requests' = Append(requests, Request(bedrock, SESSION_ID, Last(chat_history).prompt[2]))
    /\ \E i \in 1..Len(RequestErrors) :
          \E okPushes \in SinkOutcomes(RequestErrors[i]) :
             Fail(RequestErrors[i], okPushes)
    /\ UNCHANGED << response_text, step, consumed >>
    /\ UNCHANGED << chat_history, nEvents >>
    /\ UNCHANGED sessionVars
    /\ agent' = NoAgent

\* The stream delivers an event and the loop body runs; an exception of the
\* body goes to the handler.
ConsumeEvent ==
    /\ pc = "stream"
    /\ nEvents < MaxEvents
    /\ nEvents' = nEvents + 1
    /\ \E i \in 1..Len(StreamEvents), sinkOk \in BOOLEAN :
          LET r == ProcessEvent(Locals, StreamEvents[i], sinkOk) IN
          /\ consumed' = Append(consumed, StreamEvents[i])
          /\ response_text' = r.response_text
          /\ step' = r.step
          /\ IF r.exc = NoExc
             THEN /\ trace_text' = r.trace_text
                  /\ sink' = r.sink
                  /\ pc' = "stream"
                  /\ UNCHANGED outcome
             ELSE \E okPushes \in SinkOutcomes(r.exc) :
                     LET h == HandleException(r, r.exc, okPushes) IN
                     /\ trace_text' = h.trace_text
                     /\ sink' = h.sink
                     /\ outcome' = Raised(h.exc)
                     /\ pc' = "raised"
    /\ UNCHANGED << requests, chat_history >>
    /\ UNCHANGED sessionVars
    /\ agent' = NoAgent

\* Iterating the stream raises.
StreamRaises ==
    /\ pc = "stream"
    /\ \E i \in 1..Len(StreamErrors) :
          \E okPushes \in SinkOutcomes(StreamErrors[i]) :
             Fail(StreamErrors[i], okPushes)
    /\ UNCHANGED << response_text, step, consumed, requests >>
    /\ UNCHANGED << chat_history, nEvents >>
    /\ UNCHANGED sessionVars
    /\ agent' = NoAgent

\* The stream ends: return response_text, trace_text
StreamEnds ==
    /\ pc = "stream"
    /\ outcome' = Returned(response_text, trace_text)
    /\ pc' = "returned"
    /\ UNCHANGED << response_text, trace_text, step, sink, consumed, requests >>
    /\ UNCHANGED << chat_history, nEvents >>
    /\ UNCHANGED sessionVars
    /\ agent' = NoAgent

\* run_app after the call: a result is appended to the chat history with
\* its trace; an exception leaves run_app, and nothing is appended.
FinishTurn ==
    /\ pc \in {"returned", "raised"}
    /\ chat_history' =
          IF outcome.kind = "return"
          THEN Append(chat_history,
                      Chat("assistant", <<"formatted", outcome.response_text>>, outcome.trace))
          ELSE chat_history
    /\ pc' = "idle"
    /\ response_text' = <<>>
    /\ trace_text' = ""
    /\ step' = InitialStep
    /\ sink' = <<>>
    /\ consumed' = <<>>
    /\ requests' = <<>>
    /\ outcome' = NoOutcome
    /\ UNCHANGED nEvents
    /\ UNCHANGED sessionVars
    /\ agent' = NoAgent

Next ==
    \/ ConstructAgent
    \/ InitializeAgent
    \/ ClearChat
    \/ Rerun
    \/ SubmitPrompt
    \/ SendRequest
    \/ RequestRaises
    \/ ConsumeEvent
    \/ StreamRaises
    \/ StreamEnds
    \/ FinishTurn

Spec == Init /\ [][Next]_vars

(***************************************************************************)
(* The categories of the classifier, as the specification names them.      *)
(***************************************************************************)
\* the trace object of an event, the empty dict for an event without one
TraceObjOf(e) ==
    IF HasKey(e, "trace") /\ HasKey(Get(e, "trace"), "trace")
    THEN Get(Get(e, "trace"), "trace")
    ELSE PyDict(<< >>)

IsContentChunk(e) == HasKey(e, "chunk")
IsOrchestration(e) == ~IsContentChunk(e) /\ HasKey(TraceObjOf(e), "orchestrationTrace")
IsRationaleStep(e) ==
    IsOrchestration(e) /\ HasKey(Get(TraceObjOf(e), "orchestrationTrace"), "rationale")
IsBareModelInput(e) ==
    /\ IsOrchestration(e)
    /\ ~IsRationaleStep(e)
    /\ HasKey(Get(TraceObjOf(e), "orchestrationTrace"), "modelInvocationInput")
IsGenericOrchestration(e) ==
    IsOrchestration(e) /\ ~IsRationaleStep(e) /\ ~IsBareModelInput(e)
IsFailureStep(e) ==
    ~IsContentChunk(e) /\ ~IsOrchestration(e) /\ HasKey(TraceObjOf(e), "failureTrace")
IsPostProcessingStep(e) ==
    /\ ~IsContentChunk(e) /\ ~IsOrchestration(e) /\ ~IsFailureStep(e)
    /\ HasKey(TraceObjOf(e), "postProcessingTrace")
IsUnknownEvent(e) ==
    /\ ~IsContentChunk(e) /\ ~IsOrchestration(e)
    /\ ~IsFailureStep(e) /\ ~IsPostProcessingStep(e)

\* the events that advance the step counter
IsStepEvent(e) == IsRationaleStep(e) \/ IsPostProcessingStep(e)
\* the events that add a fragment to the trace
IsTraceProducing(e) ==
    IsRationaleStep(e) \/ IsGenericOrchestration(e) \/ IsFailureStep(e)
    \/ IsPostProcessingStep(e)

\* a post-processing event that carries its parsed response text
HasParsedResponse(e) ==
    /\ IsPostProcessingStep(e)
    /\ HasKey(Get(TraceObjOf(e), "postProcessingTrace"), "modelInvocationOutput")
    /\ HasKey(Get(Get(TraceObjOf(e), "postProcessingTrace"), "modelInvocationOutput"),
              "parsedResponse")
    /\ HasKey(Get(Get(Get(TraceObjOf(e), "postProcessingTrace"), "modelInvocationOutput"),
                  "parsedResponse"), "text")

\* an event of the data model: a chunk of valid UTF-8, or a trace event
\* of a known category with the fields its category reads
IsDataModelEvent(e) ==
    \/ IsContentChunk(e) /\ HasKey(Get(e, "chunk"), "bytes")
       /\ Utf8Decode(Get(Get(e, "chunk"), "bytes")[2]).ok
    \/ IsRationaleStep(e)
       /\ HasKey(Get(Get(TraceObjOf(e), "orchestrationTrace"), "rationale"), "text")
    \/ IsGenericOrchestration(e)
    \/ IsBareModelInput(e)
    \/ IsFailureStep(e)
    \/ HasParsedResponse(e)

ChunkText(e) == Utf8Decode(Get(Get(e, "chunk"), "bytes")[2]).text

\* the positions of the events of a sequence that satisfy P
Positions(events, P(_)) == {i \in 1..Len(events) : P(events[i])}

Max(S) == CHOOSE m \in S : \A k \in S : k <= m

\* the final text the specification gives for a sequence of events
ExpectedFinalText(events) ==
    IF Positions(events, IsContentChunk) = {} THEN << >>
    ELSE ChunkText(events[Max(Positions(events, IsContentChunk))])

ExpectedStepHeader(n) == "\n\n\n---------- Step " \o ToString(n) \o " ----------\n\n\n"

\* the fragment of a trace-producing event that is the n-th step event
\* (n is not read for an event that is no step)
ExpectedFragment(e, n) ==
    IF IsRationaleStep(e)
    THEN ExpectedStepHeader(n)
         \o Get(Get(Get(TraceObjOf(e), "orchestrationTrace"), "rationale"), "text")[2]
         \o "\n\n\n"
    ELSE IF IsGenericOrchestration(e)
    THEN "\n\n\n" \o JsonDumps(SerializeTraceData(Get(TraceObjOf(e), "orchestrationTrace")))
         \o "\n\n\n"
    ELSE IF IsFailureStep(e)
    THEN "\n\n\n" \o JsonDumps(SerializeTraceData(Get(TraceObjOf(e), "failureTrace")))
         \o "\n\n\n"
    ELSE ExpectedStepHeader(n)
         \o JsonDumps(SerializeTraceData(
                Get(Get(Get(Get(TraceObjOf(e), "postProcessingTrace"),
                            "modelInvocationOutput"), "parsedResponse"), "text")))
         \o "\n\n\n"

\* the number of step events among the first i events
StepsUpTo(events, i) == Cardinality({k \in 1..i : IsStepEvent(events[k])})

RECURSIVE ExpectedFragmentsFrom(_, _)
\* the fragments of the events i.. of a sequence, in arrival order
ExpectedFragmentsFrom(events, i) ==
    IF i > Len(events) THEN << >>
    ELSE (IF IsTraceProducing(events[i])
          THEN << ExpectedFragment(events[i], StepsUpTo(events, i)) >>
          ELSE << >>)
         \o ExpectedFragmentsFrom(events, i + 1)

ExpectedFragments(events) == ExpectedFragmentsFrom(events, 1)

RECURSIVE Concat(_)
\* the concatenation of a sequence of strings
Concat(strings) ==
    IF strings = << >> THEN "" ELSE strings[1] \o Concat(Tail(strings))

\* the texts the sink has displayed through markdown(...)
SinkTexts == [i \in 1..Len(sink) |-> sink[i].text]

InFlight == pc \in {"stream", "returned"}

\* the exception invoke_agent raises when a push of the sink raised: the
\* sink's own, out of the handler, or the handler's with the sink's message
IsSinkCaused(e) == e = SinkError \/ e = InvocationError(SinkError)

TransportErrors == {ErrNotFound, ErrAccessDenied, ErrStream}

(***************************************************************************)
(* C1.  A stream consumed to its end without an error returns, as the      *)
(* final text, the decoded payload of the last content chunk in arrival    *)
(* order, and the empty string when there was no chunk; trace events       *)
(* around the chunks do not change it.  And no event of the data model     *)
(* makes the invocation fail by itself: an invocation fails only on a      *)
(* transport error, on a raising sink, or on an event outside the data     *)
(* model.                                                                  *)
(***************************************************************************)
C1_LastChunkIsFinalText ==
    /\ InFlight => response_text = ExpectedFinalText(consumed)
    /\ pc = "returned" =>
          /\ outcome.kind = "return"
          /\ outcome.response_text = ExpectedFinalText(consumed)
    /\ pc = "raised" =>
          \/ outcome.exc \in {InvocationError(e) : e \in TransportErrors}
          \/ IsSinkCaused(outcome.exc)
          \/ consumed # << >> /\ ~IsDataModelEvent(Last(consumed))

\* Two chunks with a trace event between them were consumed, and the
\* invocation returned the second one's text.
C1_Witness ==
    /\ pc = "returned"
    /\ consumed = << EvChunkA, EvRationale1, EvChunkUtf8 >>
    /\ outcome.response_text = << 233 >>

(***************************************************************************)
(* C2.  The step counter starts at zero in every invocation, whatever      *)
(* happened before on the client; it is the number of rationale and        *)
(* post-processing events consumed so far, no other event changes it; and  *)
(* the fragment of the i-th such event is labelled Step i.                 *)
(***************************************************************************)
C2_StepCounter ==
    /\ pc \in {"idle", "request"} => step = 0
    /\ pc \in {"stream", "returned", "raised"} => step = StepsUpTo(consumed, Len(consumed))
    /\ InFlight =>
          LET producing == [k \in 1..Len(consumed) |->
                              Cardinality({m \in 1..k : IsTraceProducing(consumed[m])})]
          IN  \A i \in 1..Len(consumed) :
                 IsStepEvent(consumed[i]) =>
                    /\ producing[i] <= Len(sink)
                    /\ sink[producing[i]].text =
                          ExpectedFragment(consumed[i], StepsUpTo(consumed, i))

\* An invocation that follows an earlier one (which consumed an event)
\* labelled its two step events Step 1 and Step 2.
C2_Witness ==
    /\ pc = "returned"
    /\ nEvents > Len(consumed)
    /\ consumed = << EvRationale1, EvPostProcessing >>
    /\ step = 2
    /\ SinkTexts = << ExpectedStepHeader(1) \o "r1" \o "\n\n\n",
                      ExpectedStepHeader(2) \o "\"p1\"" \o "\n\n\n" >>

(***************************************************************************)
(* C3.  When the request or the iteration of the stream raises a           *)
(* transport or remote-side error, invoke_agent consumes no further        *)
(* event, sends no further request, appends the error fragment to the      *)
(* trace text and raises: it never returns a result.  When the sink        *)
(* displays the handler's pushes, the first of them describes the error    *)
(* and the exception raised carries the underlying message.                *)
(***************************************************************************)
C3_TransportErrorAborts ==
    /\ [][(RequestRaises \/ StreamRaises) =>
            /\ pc' = "raised"
            /\ outcome'.kind = "raise"
            /\ consumed' = consumed
            /\ Len(requests') = 1
            /\ \E e \in TransportErrors :
                  /\ trace_text' = trace_text \o "\\u274c Error: " \o e.msg
                  /\ \/ /\ outcome'.exc = SinkError
                        /\ Len(sink') < Len(sink) + Len(ErrorPushes(e))
                     \/ /\ outcome'.exc.msg = "Agent invocation failed: " \o e.msg
                        /\ Len(sink') > Len(sink)
                        /\ sink'[Len(sink) + 1] =
                              Push("error", "\\u274c Error invoking agent: " \o e.msg)]_vars
    /\ [][pc = "raised" => requests' = << >> /\ consumed' = << >> /\ pc' = "idle"]_vars

\* The request raised before any fragment was pushed: the sink holds the
\* error fragment and the invocation raised.
C3_Witness ==
    /\ pc = "raised"
    /\ consumed = << >>
    /\ Len(requests) = 1
    /\ sink = << Push("error", "\\u274c Error invoking agent: " \o ErrAccessDenied.msg),
                 Push("error", "\\U0001f510 **Access Denied:** Check IAM permissions") >>
    /\ trace_text = "\\u274c Error: " \o ErrAccessDenied.msg
    /\ outcome.exc.msg = "Agent invocation failed: " \o ErrAccessDenied.msg

(***************************************************************************)
(* C4.  A failure-trace event is not raised as an error: its serialized    *)
(* content is appended to the trace and pushed to the sink, the step       *)
(* counter and the candidate final text stay as they are, and the loop     *)
(* goes on (the invocation ends there only when the push itself raises);   *)
(* the events after it are classified as usual, so a returning invocation  *)
(* has the final text and the trace of all its events.                     *)
(***************************************************************************)
C4_FailureEventContinues ==
    /\ [][(pc = "stream" /\ Len(consumed') = Len(consumed) + 1
           /\ IsFailureStep(Last(consumed'))) =>
            LET fragment == "\n\n\n" \o JsonDumps(SerializeTraceData(
                                Get(TraceObjOf(Last(consumed')), "failureTrace")))
                            \o "\n\n\n"
            IN  /\ step' = step
                /\ response_text' = response_text
                /\ \/ /\ pc' = "stream"
                      /\ trace_text' = trace_text \o fragment
                      /\ sink' = Append(sink, Push("markdown", fragment))
                   \/ /\ pc' = "raised"
                      /\ IsSinkCaused(outcome'.exc)]_vars
    /\ [](pc = "returned" =>
            /\ outcome.response_text = ExpectedFinalText(consumed)
            /\ outcome.trace = << Concat(ExpectedFragments(consumed)) >>)

\* A failure event came first; the chunk and the step after it made the
\* final text and Step 1 of the returned trace.
C4_Witness ==
    /\ pc = "returned"
    /\ consumed = << EvFailure, EvChunkA, EvRationale1 >>
    /\ outcome.response_text = << 65 >>
    /\ step = 1
    /\ outcome.trace =
          << "\n\n\n{\n  \"failureReason\": \"boom\"\n}\n\n\n"
             \o ExpectedStepHeader(1) \o "r1" \o "\n\n\n" >>

(***************************************************************************)
(* C5.  A push of the trace sink that raises never makes the invocation    *)
(* fail: no invocation raises with the sink's failure as its error.        *)
(***************************************************************************)
C5_SinkFailureSwallowed ==
    pc = "raised" => ~IsSinkCaused(outcome.exc)

(***************************************************************************)
(* C6.  An event of no known category is ignored: the loop goes on, and    *)
(* the step counter, the candidate final text, the trace text and the      *)
(* sink are as before.                                                     *)
(***************************************************************************)
C6_UnknownEventIgnored ==
    [][(pc = "stream" /\ Len(consumed') = Len(consumed) + 1
        /\ IsUnknownEvent(Last(consumed'))) =>
          /\ pc' = "stream"
          /\ step' = step
          /\ response_text' = response_text
          /\ trace_text' = trace_text
          /\ sink' = sink]_vars

(***************************************************************************)
(* C7.  The constructor never returns a client with an empty agent id or   *)
(* an empty agent alias id.                                                *)
(***************************************************************************)
C7_EmptyIdsRejected ==
    agent.exists => agent.agent_id # "" /\ agent.agent_alias_id # ""

(***************************************************************************)
(* C8.  The session id is created by the first construction and changes    *)
(* afterwards only in new_session, which replaces it with a different,     *)
(* non-empty id; a later construction and an invocation leave it as it     *)
(* is; every request carries the session id current when it is sent.       *)
(***************************************************************************)
C8_SessionIdChangesOnlyOnReset ==
    /\ [][SESSION_ID' # SESSION_ID =>
            \/ SESSION_ID = NoSession /\ agent'.exists
            \/ pc = "idle" /\ pc' = "idle" /\ bedrock.exists
               /\ chat_history' = << >> /\ SESSION_ID' # NoSession]_vars
    /\ [][(ClearChat /\ bedrock.exists) =>
            SESSION_ID' # SESSION_ID /\ SESSION_ID' # NoSession]_vars
    /\ [][requests' # requests /\ requests' # << >> =>
            /\ requests' = Append(requests, Last(requests'))
            /\ Last(requests').sessionId = SESSION_ID
            /\ SESSION_ID' = SESSION_ID]_vars
    /\ [](agent.exists \/ bedrock.exists => SESSION_ID # NoSession)
    /\ [](\A i \in 1..Len(requests) : requests[i].sessionId = SESSION_ID)

\* A request went out with the id a reset of the session left.  That the
\* reset happened shows in the state: events were consumed before this
\* invocation (nEvents > Len(consumed)), so an earlier invocation ran on a
\* stored client and left its prompt in the history; the history now holds
\* the greeting and this invocation's prompt only, so Clear Chat emptied it
\* in between, and with a client stored Clear Chat calls new_session.
C8_Witness ==
    /\ pc = "stream"
    /\ nEvents > Len(consumed)
    /\ chat_history = << Greeting, Chat("human", <<"str", "DB down">>, <<>>) >>
    /\ bedrock.exists
    /\ uuidClock = 2
    /\ SESSION_ID = Uuid1Str(2)
    /\ Len(requests) = 1
    /\ requests[1].sessionId = "00000002-0000-1000-8000-000000000000"

(***************************************************************************)
(* C9.  When invoke_agent raises, its caller receives, with the error,     *)
(* the trace text accumulated up to the error.                             *)
(***************************************************************************)
C9_PartialTraceWithError ==
    pc = "raised" => outcome.trace = << trace_text >>

(***************************************************************************)
(* C10.  While the stream is consumed without error, and when the          *)
(* invocation returns, the sink has received exactly one fragment for      *)
(* each trace-producing event (rationale, orchestration with neither       *)
(* rationale nor model-invocation-input, failure, post-processing), in     *)
(* arrival order, and none for a chunk or a bare model-invocation-input    *)
(* event; each push appends to what the sink had; and the trace text is    *)
(* the concatenation of the fragments pushed.                              *)
(***************************************************************************)
C10_TraceIsFragmentsInOrder ==
    /\ [](InFlight =>
            /\ sink = [i \in 1..Len(ExpectedFragments(consumed)) |->
                          Push("markdown", ExpectedFragments(consumed)[i])]
            /\ trace_text = Concat(SinkTexts))
    /\ [](pc = "returned" => outcome.trace = << Concat(SinkTexts) >>)
    /\ [][pc = "stream" /\ pc' = "stream" =>
            /\ Len(sink') \in {Len(sink), Len(sink) + 1}
            /\ SubSeq(sink', 1, Len(sink)) = sink]_vars

\* A bare model-invocation-input event added nothing; the observation and
\* the failure event after it added one fragment each, in that order.
C10_Witness ==
    /\ pc = "returned"
    /\ consumed = << EvModelInput, EvObservation, EvFailure >>
    /\ SinkTexts =
          << "\n\n\n{\n  \"observation\": {\n    \"type\": \"FINISH\",\n"
             \o "    \"at\": \"2024-01-02T03:04:05\"\n  }\n}\n\n\n",
             "\n\n\n{\n  \"failureReason\": \"boom\"\n}\n\n\n" >>
    /\ outcome.trace = << SinkTexts[1] \o SinkTexts[2] >>

=============================================================================
